---- MODULE Spec2Model ----
(***************************************************************************)
(* Model of GeorisquesConnector.load_from_state (src/connector.py), the    *)
(* generator that crawls a site from a seed URL, renders every page once,  *)
(* follows PDF links depth-first and yields the Documents in batches.      *)
(*                                                                         *)
(* A URL is a number in 1..NumUrls; Seed is the connector's base_url.  An  *)
(* href found on a page is a number in 0..NumUrls: href u > 0 is the       *)
(* absolute address of URL u, href 0 is a malformed ".pdf" address (such   *)
(* as "http://[x.pdf") on which urljoin raises ValueError.  Every URL but  *)
(* the seed ends in ".pdf".  The content of a page is chosen when the page *)
(* is requested; as no page is requested twice this is the same as fixing  *)
(* the whole site before the run.  Of the links seen the model keeps two   *)
(* sets: discovered (on any requested page) and linked_ok (on the pages    *)
(* processed without a failure).                                           *)
(*                                                                         *)
(* The generator runs only while its consumer asks for the next batch; pc  *)
(* is the position at which the generator frame stands.                    *)
(***************************************************************************)
EXTENDS Integers, Sequences, FiniteSets, TLC

\* ---- bounds of the model ----
NumUrls == 3
MaxLinks == 2
MaxBatch == 2

\* src/connector.py:23 sets 1000; scaled down so that runs reach the budget.
MAX_PAGES_TO_VISIT == 3

Seed == 1
Urls == 1..NumUrls
Hrefs == 0..NumUrls
BadHref == 0
Contents == UNION {[1..n -> Hrefs] : n \in 0..MaxLinks}

\* None of Python
None == <<"None">>

\* stands for an attribute that no assignment has created yet
Unset == -1

\* the values a caller may pass as georisques_connector_type: the one member
\* of GEORISQUES_CONNECTOR_VALID_SETTINGS and a string that is not one
Modes == {"single", "recursive"}

VARIABLES
  georisques_connector_type, \* the argument given to the constructor
  base_url,          \* self.base_url
  to_visit_list,     \* self.to_visit_list
  batch_size,        \* self.batch_size
  self_loaded_count, \* self.loaded_count
  pc,                \* position of the generator frame
  to_visit,          \* local stack of URLs
  visited_links,     \* local set of URLs
  loaded_count,      \* local counter
  doc_batch,         \* local list of Documents
  at_least_one_doc,  \* local flag
  last_error,        \* local: None or the message of the latest failure
  current_url,       \* local: URL of the iteration
  discovered,        \* the PDF addresses on the pages requested so far
  linked_ok,         \* those on the pages processed without a failure
  self_link,         \* whether a processed page carried a link to itself
  emitted,           \* the batches handed to the consumer, in order
  outcome,           \* how the run ended: None while it has not
  starts,            \* calls of sync_playwright().start()
  stops,             \* calls of playwright.stop()
  open_pages,        \* pages opened by context.new_page() and not closed
  gotos,             \* URL -> number of page.goto(URL) calls
  pops,              \* number of to_visit.pop() calls
  produced,          \* ids of the Documents appended to doc_batch, in order
  logged,            \* the messages given to logger.error, in order
  failed,            \* URLs whose iteration ended in the except clause
  exit_by            \* "running", or why the loop was left: "empty", "budget"

vars == <<georisques_connector_type, base_url, to_visit_list, batch_size,
          self_loaded_count, pc, to_visit,
          visited_links, loaded_count, doc_batch, at_least_one_doc,
          last_error, current_url, discovered, linked_ok, self_link,
          emitted, outcome,
          starts, stops, open_pages, gotos, pops, produced, logged, failed,
          exit_by>>

\* the attributes of the connector, and with them the constructor's argument
stored == <<to_visit_list, self_loaded_count, batch_size, base_url>>
config == <<stored, georisques_connector_type>>
locals == <<to_visit, visited_links, loaded_count, doc_batch,
            at_least_one_doc, last_error, current_url>>
links == <<discovered, linked_ok, self_link>>
history == <<links, emitted, starts, stops, open_pages, gotos, pops,
             produced, logged, failed, exit_by>>

\* ---- helpers ----
\* to_visit.pop(0) in place of to_visit.pop(): the oldest entry is taken
LastFifo(s) == s[1]

\* the value of list.pop()
Last(s) == s[Len(s)]
Front(s) == SubSeq(s, 1, Len(s) - 1)

\* Document(id=current_url, sections=[Section(link=current_url, ...)], ...)
Document(u) == [id |-> u, link |-> u]

\* href.endswith('.pdf')
EndsWithPdf(h) == h # Seed

\* urljoin(current_url, href) of an absolute href is the href itself
urljoin(base, h) == h

\* f"Failed to fetch '{current_url}': {e}"
ErrorMessage(u, e) == <<"Failed to fetch", u, e>>

\* the budget test off by one: a plausible slip of line 72
BudgetExceededLate(n) == n > MAX_PAGES_TO_VISIT + 1

\* loaded_count > MAX_PAGES_TO_VISIT
BudgetExceeded(n) == n > MAX_PAGES_TO_VISIT

\* lines 77-78 forgotten: no URL is ever skipped
AlreadyVisitedNever(u, visited) == FALSE

\* current_url in visited_links
AlreadyVisited(u, visited) == u \in visited

\* line 79 forgotten: the URL is not recorded
MarkVisitedForgotten(u, visited) == visited

\* visited_links.add(current_url)
MarkVisited(u, visited) == visited \cup {u}

\* lines 59-60 forgotten: an empty seed list is accepted
SeedsMissingNever(list) == FALSE

\* not to_visit (line 59)
SeedsMissing(list) == list = <<>>

\* len(doc_batch) >= self.batch_size
BatchFull(batch, size) == Len(batch) >= size

\* ---- GeorisquesConnector(...): lines 36-48 ----
\* the state in which the constructor is called: no attribute is set yet
Init ==
  /\ georisques_connector_type \in Modes
  /\ base_url = Unset
  /\ to_visit_list = <<Unset>>
  /\ batch_size = Unset
  /\ self_loaded_count = Unset
  /\ pc = "new"
  /\ to_visit = <<>>
  /\ visited_links = {}
  /\ loaded_count = 0
  /\ doc_batch = <<>>
  /\ at_least_one_doc = FALSE
  /\ last_error = None
  /\ current_url = Seed
  /\ discovered = {}
  /\ linked_ok = {}
  /\ self_link = FALSE
  /\ emitted = <<>>
  /\ outcome = None
  /\ starts = 0
  /\ stops = 0
  /\ open_pages = 0
  /\ gotos = [u \in Urls |-> 0]
  /\ pops = 0
  /\ produced = <<>>
  /\ failed = {}
  /\ logged = <<>>
  /\ exit_by = "running"

\* the mode test of line 47 forgotten: every mode is accepted
ModeSupportedAlways(type) == TRUE

\* georisques_connector_type == GEORISQUES_CONNECTOR_VALID_SETTINGS.SINGLE.value
ModeSupported(type) == type = "single"

\* __init__: the four attributes are assigned, then the mode is tested; the
\* ValueError of line 48 leaves the caller without an instance.  With the
\* instance the caller calls load_from_state(), which runs no line of the
\* generator before the first next().
Construct ==
  /\ pc = "new"
  /\ \E size \in 1..MaxBatch : batch_size' = size
  /\ self_loaded_count' = 0
  /\ base_url' = Seed
  /\ to_visit_list' = <<base_url'>>
  /\ IF ModeSupported(georisques_connector_type)
     THEN /\ pc' = "created"
          /\ outcome' = outcome
     ELSE /\ pc' = "rejected"
          /\ outcome' = <<"ValueError", "Only 'single' type is supported">>
  /\ UNCHANGED <<georisques_connector_type, locals, history>>

\* the caller empties the public attribute to_visit_list of the instance
\* before the run: the one way in which line 57 copies an empty list
ClearSeeds ==
  /\ pc = "created"
  /\ to_visit_list # <<>>
  /\ to_visit_list' = <<>>
  /\ UNCHANGED <<georisques_connector_type, base_url, batch_size,
                 self_loaded_count, pc, locals, outcome, history>>

\* ---- first next(): lines 56-68 ----
\* "if not to_visit: raise ValueError"
StartEmpty ==
  /\ pc = "created"
  /\ SeedsMissing(to_visit_list)
  /\ visited_links' = {}
  /\ to_visit' = to_visit_list
  /\ pc' = "raised"
  /\ outcome' = <<"ValueError", "No URLs to visit">>
  /\ UNCHANGED <<config, loaded_count, doc_batch, at_least_one_doc,
                 last_error, current_url, history>>

\* line 56 forgotten, as when the visited set is kept on the instance: a
\* run starts with the visited set the previous run left
StartRunKeepsVisited ==
  /\ pc = "created"
  /\ ~SeedsMissing(to_visit_list)
  /\ to_visit' = to_visit_list
  /\ loaded_count' = self_loaded_count
  /\ doc_batch' = <<>>
  /\ at_least_one_doc' = FALSE
  /\ last_error' = None
  /\ starts' = starts + 1
  /\ pc' = "loop"
  /\ UNCHANGED <<config, visited_links, current_url, outcome, links,
                 emitted, stops, open_pages, gotos, pops, produced, logged,
                 failed, exit_by>>

\* lines 56-68 with start_playwright() returning
StartRun ==
  /\ pc = "created"
  /\ ~SeedsMissing(to_visit_list)
  /\ to_visit' = to_visit_list
  /\ visited_links' = {}
  /\ loaded_count' = self_loaded_count
  /\ doc_batch' = <<>>
  /\ at_least_one_doc' = FALSE
  /\ last_error' = None
  /\ starts' = starts + 1
  /\ pc' = "loop"
  /\ UNCHANGED <<config, current_url, outcome, links, emitted, stops,
                 open_pages, gotos, pops, produced, logged, failed, exit_by>>

\* start_playwright(): sync_playwright().start() returns, then
\* chromium.launch or new_context raises; the error leaves the generator.
StartLaunchFails ==
  /\ pc = "created"
  /\ ~SeedsMissing(to_visit_list)
  /\ to_visit' = to_visit_list
  /\ visited_links' = {}
  /\ loaded_count' = self_loaded_count
  /\ doc_batch' = <<>>
  /\ at_least_one_doc' = FALSE
  /\ last_error' = None
  /\ starts' = starts + 1
  /\ pc' = "raised"
  /\ outcome' = <<"Error", "browser launch">>
  /\ UNCHANGED <<config, current_url, links, emitted, stops, open_pages,
                 gotos, pops, produced, logged, failed, exit_by>>

\* ---- head of the while loop: lines 70-79 ----
\* "while to_visit" is false
LoopExit ==
  /\ pc = "loop"
  /\ to_visit = <<>>
  /\ pc' = "flush"
  /\ exit_by' = "empty"
  /\ UNCHANGED <<config, locals, outcome, links, emitted, starts, stops,
                 open_pages, gotos, pops, produced, logged, failed>>

\* "loaded_count += 1; if loaded_count > MAX_PAGES_TO_VISIT: break"
BudgetStop ==
  /\ pc = "loop"
  /\ to_visit # <<>>
  /\ BudgetExceeded(loaded_count + 1)
  /\ loaded_count' = loaded_count + 1
  /\ pc' = "flush"
  /\ exit_by' = "budget"
  /\ UNCHANGED <<config, to_visit, visited_links, doc_batch,
                 at_least_one_doc, last_error, current_url, outcome, links,
                 emitted, starts, stops, open_pages, gotos, pops, produced,
                 logged, failed>>

\* the increment of line 71 placed after the test of line 77: a skipped
\* pop is not counted
PopSkipUncounted ==
  /\ pc = "loop"
  /\ to_visit # <<>>
  /\ ~BudgetExceeded(loaded_count + 1)
  /\ AlreadyVisited(Last(to_visit), visited_links)
  /\ current_url' = Last(to_visit)
  /\ to_visit' = Front(to_visit)
  /\ pops' = pops + 1
  /\ pc' = "loop"
  /\ UNCHANGED <<config, loaded_count, visited_links, doc_batch,
                 at_least_one_doc, last_error, outcome, links, emitted,
                 starts, stops, open_pages, gotos, produced, logged, failed,
                 exit_by>>

\* pop of a URL that is in visited_links: "continue"
PopSkip ==
  /\ pc = "loop"
  /\ to_visit # <<>>
  /\ ~BudgetExceeded(loaded_count + 1)
  /\ AlreadyVisited(Last(to_visit), visited_links)
  /\ loaded_count' = loaded_count + 1
  /\ current_url' = Last(to_visit)
  /\ to_visit' = Front(to_visit)
  /\ pops' = pops + 1
  /\ pc' = "loop"
  /\ UNCHANGED <<config, visited_links, doc_batch, at_least_one_doc,
                 last_error, outcome, links, emitted, starts, stops,
                 open_pages, gotos, produced, logged, failed, exit_by>>

\* pop of a URL that is not in visited_links: it is added, the try begins
PopVisit ==
  /\ pc = "loop"
  /\ to_visit # <<>>
  /\ ~BudgetExceeded(loaded_count + 1)
  /\ ~AlreadyVisited(Last(to_visit), visited_links)
  /\ loaded_count' = loaded_count + 1
  /\ current_url' = Last(to_visit)
  /\ to_visit' = Front(to_visit)
  /\ pops' = pops + 1
  /\ visited_links' = MarkVisited(Last(to_visit), visited_links)
  /\ pc' = "page"
  /\ UNCHANGED <<config, doc_batch, at_least_one_doc, last_error, outcome,
                 links, emitted, starts, stops, open_pages, gotos, produced,
                 logged, failed, exit_by>>

\* ---- except Exception as e: lines 112-115 ----
\* "break" in place of the handler's "continue": a failure ends the loop
AfterFailureBreak == "flush"

\* where the generator stands after the handler's "continue"
AfterFailure == "loop"

\* the handler keeps the first failure instead of the latest
HandlerKeepsFirst(e) ==
  /\ last_error' = IF last_error = None
                   THEN ErrorMessage(current_url, e)
                   ELSE last_error
  /\ logged' = Append(logged, ErrorMessage(current_url, e))
  /\ failed' = failed \cup {current_url}
  /\ pc' = AfterFailure

Handler(e) ==
  /\ last_error' = ErrorMessage(current_url, e)
  /\ logged' = Append(logged, ErrorMessage(current_url, e))
  /\ failed' = failed \cup {current_url}
  /\ pc' = AfterFailure

\* ---- one iteration of the try block: lines 81-119 ----
\* line 107 forgotten: no discovered address is pushed
PdfLinksNone(content, base, visited) == <<>>

\* the PDF addresses that "for link in soup.find_all(...)" appends to
\* to_visit, in order, for the hrefs of content (lines 102-107)
RECURSIVE PdfLinks(_, _, _)
PdfLinks(content, base, visited) ==
  IF content = <<>> THEN <<>>
  ELSE LET h == Head(content)
           rest == PdfLinks(Tail(content), base, visited)
       IN IF EndsWithPdf(h) /\ urljoin(base, h) \notin visited
          THEN <<urljoin(base, h)>> \o rest
          ELSE rest

\* the PDF addresses that the hrefs of content name
PdfTargets(content, base) ==
  {urljoin(base, content[i]) : i \in {j \in 1..Len(content) :
      EndsWithPdf(content[j]) /\ content[j] # BadHref}}

\* position of the first href on which urljoin raises, 0 when there is none
FirstBad(content) ==
  IF \E i \in 1..Len(content) : content[i] = BadHref
  THEN CHOOSE i \in 1..Len(content) :
         /\ content[i] = BadHref
         /\ \A j \in 1..(i - 1) : content[j] # BadHref
  ELSE 0

\* line 82: context.new_page() raises
NewPageFails ==
  /\ pc = "page"
  /\ Handler("new_page")
  /\ UNCHANGED <<config, to_visit, visited_links, loaded_count, doc_batch,
                 at_least_one_doc, current_url, outcome, links, emitted,
                 starts, stops, open_pages, gotos, pops, produced, exit_by>>

\* lines 83-88: page.goto, page.content or the parsing raises
GotoFails ==
  /\ pc = "page"
  /\ \E c \in Contents :
       discovered' = discovered \cup PdfTargets(c, current_url)
  /\ linked_ok' = linked_ok
  /\ self_link' = self_link
  /\ open_pages' = open_pages + 1
  /\ gotos' = [gotos EXCEPT ![current_url] = @ + 1]
  /\ Handler("goto")
  /\ UNCHANGED <<config, to_visit, visited_links, loaded_count, doc_batch,
                 at_least_one_doc, current_url, outcome, emitted, starts,
                 stops, pops, produced, exit_by>>

\* lines 83-107: the Document is appended, then urljoin raises on an href
LinkFails ==
  /\ pc = "page"
  /\ \E c \in Contents :
       /\ FirstBad(c) > 0
       /\ discovered' = discovered \cup PdfTargets(c, current_url)
       /\ linked_ok' = linked_ok
       /\ self_link' = self_link
       /\ to_visit' = to_visit \o
            PdfLinks(SubSeq(c, 1, FirstBad(c) - 1), current_url, visited_links)
  /\ open_pages' = open_pages + 1
  /\ gotos' = [gotos EXCEPT ![current_url] = @ + 1]
  /\ doc_batch' = Append(doc_batch, Document(current_url))
  /\ produced' = Append(produced, current_url)
  /\ Handler("urljoin")
  /\ UNCHANGED <<config, visited_links, loaded_count, at_least_one_doc,
                 current_url, outcome, emitted, starts, stops, pops, exit_by>>

\* lines 83-109: the Document is appended, the links are pushed, then
\* page.close() raises
CloseFails ==
  /\ pc = "page"
  /\ \E c \in Contents :
       /\ FirstBad(c) = 0
       /\ discovered' = discovered \cup PdfTargets(c, current_url)
       /\ linked_ok' = linked_ok
       /\ self_link' = self_link
       /\ to_visit' = to_visit \o PdfLinks(c, current_url, visited_links)
  /\ open_pages' = open_pages + 1
  /\ gotos' = [gotos EXCEPT ![current_url] = @ + 1]
  /\ doc_batch' = Append(doc_batch, Document(current_url))
  /\ produced' = Append(produced, current_url)
  /\ Handler("close")
  /\ UNCHANGED <<config, visited_links, loaded_count, at_least_one_doc,
                 current_url, outcome, emitted, starts, stops, pops, exit_by>>

\* lines 82-119 without an exception, up to the yield or the loop head
PageOk ==
  /\ pc = "page"
  /\ \E c \in Contents :
       /\ FirstBad(c) = 0
       /\ discovered' = discovered \cup PdfTargets(c, current_url)
       /\ linked_ok' = linked_ok \cup PdfTargets(c, current_url)
       /\ self_link' = (self_link \/ current_url \in PdfTargets(c, current_url))
       /\ to_visit' = to_visit \o PdfLinks(c, current_url, visited_links)
  /\ gotos' = [gotos EXCEPT ![current_url] = @ + 1]
  /\ doc_batch' = Append(doc_batch, Document(current_url))
  /\ produced' = Append(produced, current_url)
  /\ at_least_one_doc' = TRUE
  /\ IF BatchFull(doc_batch', batch_size)
     THEN /\ emitted' = Append(emitted, doc_batch')
          /\ pc' = "yielded"
     ELSE /\ emitted' = emitted
          /\ pc' = "loop"
  /\ UNCHANGED <<config, visited_links, loaded_count, last_error,
                 current_url, outcome, starts, stops, open_pages, pops,
                 logged, failed, exit_by>>

\* a BaseException that "except Exception" does not catch (KeyboardInterrupt,
\* SystemExit) is raised inside page.goto and leaves the generator
Fatal ==
  /\ pc = "page"
  /\ open_pages' = open_pages + 1
  /\ gotos' = [gotos EXCEPT ![current_url] = @ + 1]
  /\ pc' = "aborted"
  /\ outcome' = <<"KeyboardInterrupt">>
  /\ UNCHANGED <<config, locals, links, emitted, starts, stops, pops,
                 produced, logged, failed, exit_by>>

\* ---- the consumer at a yield ----
\* next() after "yield doc_batch" of line 118: line 119, back to the loop head
Resume ==
  /\ pc = "yielded"
  /\ doc_batch' = <<>>
  /\ pc' = "loop"
  /\ UNCHANGED <<config, to_visit, visited_links, loaded_count,
                 at_least_one_doc, last_error, current_url, outcome, history>>

\* close() of the generator while it is suspended at a yield: GeneratorExit
\* is raised at the yield and leaves the generator
ConsumerClose ==
  /\ pc \in {"yielded", "yielded_last"}
  /\ pc' = "closed"
  /\ outcome' = <<"GeneratorExit">>
  /\ UNCHANGED <<config, locals, history>>

\* ---- after the loop: lines 121-129 ----
\* lines 126-129: how the run is reported
Result(flag, err) ==
  IF flag THEN <<"ok">>
  ELSE IF err # None THEN <<"RuntimeError", err>>
       ELSE <<"RuntimeError", "No valid pages found.">>

\* lines 124-129
Finish ==
  /\ stops' = stops + 1
  /\ outcome' = Result(at_least_one_doc, last_error)
  /\ pc' = "done"

\* lines 121-122 with a non-empty doc_batch: the last batch is yielded
FlushYield ==
  /\ pc = "flush"
  /\ doc_batch # <<>>
  /\ emitted' = Append(emitted, doc_batch)
  /\ pc' = "yielded_last"
  /\ UNCHANGED <<config, locals, outcome, links, starts, stops, open_pages,
                 gotos, pops, produced, logged, failed, exit_by>>

\* lines 121-129 with an empty doc_batch
FlushEmpty ==
  /\ pc = "flush"
  /\ doc_batch = <<>>
  /\ Finish
  /\ UNCHANGED <<config, locals, links, emitted, starts, open_pages, gotos,
                 pops, produced, logged, failed, exit_by>>

\* next() after the yield of line 122: lines 124-129
ResumeLast ==
  /\ pc = "yielded_last"
  /\ Finish
  /\ UNCHANGED <<config, locals, links, emitted, starts, open_pages, gotos,
                 pops, produced, logged, failed, exit_by>>

\* ---- load_from_state() called again on the instance ----
\* The run has ended; the caller calls load_from_state() once more and gets
\* a new generator.  What was observed of the ended run is forgotten; the
\* local variables keep the values of the ended frame until lines 56-66
\* assign them anew.
CallAgain ==
  /\ pc \in {"done", "raised", "aborted", "closed"}
  /\ pc' = "created"
  /\ outcome' = None
  /\ discovered' = {}
  /\ linked_ok' = {}
  /\ self_link' = FALSE
  /\ emitted' = <<>>
  /\ starts' = 0
  /\ stops' = 0
  /\ open_pages' = 0
  /\ gotos' = [u \in Urls |-> 0]
  /\ pops' = 0
  /\ produced' = <<>>
  /\ logged' = <<>>
  /\ failed' = {}
  /\ exit_by' = "running"
  /\ UNCHANGED <<config, locals>>

Next ==
  \/ Construct
  \/ ClearSeeds
  \/ StartEmpty
  \/ StartRun
  \/ StartLaunchFails
  \/ LoopExit
  \/ BudgetStop
  \/ PopSkip
  \/ PopVisit
  \/ NewPageFails
  \/ GotoFails
  \/ LinkFails
  \/ CloseFails
  \/ PageOk
  \/ Fatal
  \/ Resume
  \/ ConsumerClose
  \/ FlushYield
  \/ FlushEmpty
  \/ ResumeLast
  \/ CallAgain

Spec == Init /\ [][Next]_vars

\* The run when the constructor and every call return and the consumer keeps
\* asking for the next batch: no exception leaves the loop, the generator
\* is not closed, and a generator that can take a step takes it.
NextLive ==
  \/ Construct
  \/ ClearSeeds
  \/ StartEmpty
  \/ StartRun
  \/ StartLaunchFails
  \/ LoopExit
  \/ BudgetStop
  \/ PopSkip
  \/ PopVisit
  \/ NewPageFails
  \/ GotoFails
  \/ LinkFails
  \/ CloseFails
  \/ PageOk
  \/ Resume
  \/ FlushYield
  \/ FlushEmpty
  \/ ResumeLast

\* the constructor is called with the supported mode
LiveInit == Init /\ georisques_connector_type = "single"

LiveSpec == LiveInit /\ [][NextLive]_vars /\ WF_vars(NextLive)

\* ---- type correctness ----
TypeOK ==
  /\ pc \in {"new", "rejected", "created", "loop", "page", "yielded",
             "flush", "yielded_last", "done", "raised", "aborted", "closed"}
  /\ visited_links \subseteq Urls
  /\ \A i \in 1..Len(to_visit) : to_visit[i] \in Urls
  /\ loaded_count \in 0..(MAX_PAGES_TO_VISIT + 1)

\* ---- what the consumer has received ----
RECURSIVE Flatten(_)
Flatten(batches) ==
  IF batches = <<>> THEN <<>>
  ELSE Head(batches) \o Flatten(Tail(batches))

EmittedDocs == Flatten(emitted)
EmittedIds == {EmittedDocs[i].id : i \in 1..Len(EmittedDocs)}
RunOk == outcome = <<"ok">>
Ceil(a, b) == (a + b - 1) \div b

\* ---- C1 ----
\* C1: no URL is passed to page.goto more than once, whatever the links and
\* the failures, also when the URL was pushed several times before its
\* first pop.
C1_NoDuplicateFetch == \A u \in Urls : gotos[u] <= 1

\* a fetched URL is popped again: it was on the stack more than once
C1_Witness ==
  /\ pc = "loop"
  /\ pops > Cardinality(visited_links)
  /\ gotos[current_url] = 1
  /\ failed # {}

\* ---- C2 ----
\* C2: a run pops at most MAX_PAGES_TO_VISIT URLs (skipped and failed pops
\* included), and once the budget stopped the loop that run pops and
\* renders nothing more, however many URLs the frontier still holds.
C2_BudgetEnforced ==
  /\ [](pops <= MAX_PAGES_TO_VISIT)
  /\ [][(exit_by = "budget" /\ exit_by' = "budget") =>
          /\ pops' = pops
          /\ gotos' = gotos
          /\ to_visit' = to_visit]_vars

\* the budget stopped a run whose frontier still holds URLs
C2_Witness ==
  /\ pc = "done"
  /\ exit_by = "budget"
  /\ pops = MAX_PAGES_TO_VISIT
  /\ Len(to_visit) > 0

\* ---- C3 ----
\* C3: a run that produces D > 0 Documents with batch_size B emits exactly
\* ceil(D/B) batches, none larger than B and all but the last of size B,
\* and the batches put end to end are the Documents in production order.
C3_BatchBoundaries ==
  /\ \A i \in 1..Len(emitted) : Len(emitted[i]) <= batch_size
  /\ (pc = "done" /\ produced # <<>>) =>
       /\ Len(emitted) = Ceil(Len(produced), batch_size)
       /\ \A i \in 1..(Len(emitted) - 1) : Len(emitted[i]) = batch_size
       /\ EmittedDocs = [i \in 1..Len(produced) |-> Document(produced[i])]

\* ---- C4 ----
\* the URLs known to be reached from the seed through PDF links
Reachable == {Seed} \cup discovered

\* the seed and the URLs linked from a page processed without a failure:
\* when f is the only failing URL and the Documents of all these URLs but
\* f are emitted, they include every URL reached from the seed without
\* passing by the page of f
ReachableAvoiding(f) == ({Seed} \cup linked_ok) \ {f}

\* C4 as stated: when exactly one of K > 1 reachable URLs fails, whichever
\* it is (the seed too), the run reports success and emits a Document for
\* each of the K-1 others.
C4_AnyFailureIsolated ==
  (/\ pc = "done"
   /\ Cardinality(failed) = 1
   /\ failed \subseteq Reachable
   /\ Cardinality(Reachable) > 1)
  => /\ RunOk
     /\ (Reachable \ failed) \subseteq EmittedIds

\* C4 amended: when exactly one URL fails, it is not the seed and the run
\* is not stopped by the page budget, the run reports success and emits a
\* Document for every URL that is reached from the seed without passing by
\* the failing page.
C4_FailureIsolated ==
  \A f \in Urls :
    (/\ pc = "done"
     /\ failed = {f}
     /\ f # Seed
     /\ exit_by # "budget")
    => /\ RunOk
       /\ ReachableAvoiding(f) \subseteq EmittedIds

\* a page other than the seed failed, and two others were emitted
C4_Witness ==
  /\ pc = "done"
  /\ exit_by = "empty"
  /\ \E f \in Urls \ {Seed} :
       /\ failed = {f}
       /\ gotos[f] = 1
       /\ f \in Reachable
       /\ Cardinality(ReachableAvoiding(f)) >= 2
       /\ Cardinality(EmittedIds \ {f}) >= 2

\* ---- C5 ----
\* C5: a run that passed the seed validation has started the renderer
\* session exactly once and, however it ended (normally, on the budget, on
\* an error that leaves the loop, on the consumer closing the generator),
\* has stopped it exactly once.
C5_SessionReleased ==
  /\ starts <= 1
  /\ stops <= starts
  /\ pc \in {"done", "aborted", "closed"} => (starts = 1 /\ stops = 1)

\* ---- C6 ----
\* C6: a finished run reports failure exactly when it produced no Document,
\* and between iterations at_least_one_doc is true exactly when a Document
\* has been appended to a batch.
C6_FailureIffNoDocument ==
  /\ pc = "done" => (RunOk <=> produced # <<>>)
  /\ pc \in {"loop", "yielded", "flush", "yielded_last", "done"}
       => (at_least_one_doc <=> produced # <<>>)

\* ---- C7 ----
\* C7: a run that produces no Document emits no batch and fails; a run that
\* fails does so with the message of the most recent per-page failure when
\* there was one, and with "No valid pages found." only when there was none.
C7_LastErrorReported ==
  pc = "done" =>
    /\ produced = <<>> => (~RunOk /\ emitted = <<>>)
    /\ ~RunOk =>
         IF logged # <<>>
         THEN outcome = <<"RuntimeError", Last(logged)>>
         ELSE outcome = <<"RuntimeError", "No valid pages found.">>

\* the seed failed to render: no batch, the failure is the reported one
C7_Witness ==
  /\ pc = "done"
  /\ produced = <<>>
  /\ emitted = <<>>
  /\ visited_links = {Seed}
  /\ outcome = <<"RuntimeError", ErrorMessage(Seed, "goto")>>

\* ---- C8 ----
\* C8: with an empty seed list the run fails at once with a ValueError,
\* never starts the renderer session and emits no batch.
C8_EmptySeedFailsFast ==
  to_visit_list = <<>> =>
    /\ starts = 0
    /\ emitted = <<>>
    /\ pc \in {"created", "raised"}
    /\ pc = "raised" => outcome = <<"ValueError", "No URLs to visit">>

\* the run with an empty seed list has failed
C8_Witness ==
  /\ to_visit_list = <<>>
  /\ pc = "raised"
  /\ starts = 0

\* ---- C9 ----
\* C9: when every call returns and the consumer keeps pulling, every run
\* ends (it leaves the loop, flushes and reports how it ended), whatever
\* the links, cycles included; and the loop is left only from its head,
\* with an empty frontier or with the budget exceeded.
C9_Terminates ==
  /\ <>(pc \in {"done", "raised"})
  /\ [][(pc # "flush" /\ pc' = "flush") =>
          /\ pc = "loop"
          /\ to_visit = <<>> \/ BudgetExceeded(loaded_count')]_vars

\* the budget ended a run in which a page linked to itself
C9_Witness ==
  /\ pc = "done"
  /\ exit_by = "budget"
  /\ self_link

\* ---- C10 ----
\* C10: no two Documents of the emitted batches have the same id, and the
\* id of an emitted Document is a URL that was rendered, once.
C10_UniqueIds ==
  /\ \A i, j \in 1..Len(EmittedDocs) :
       EmittedDocs[i].id = EmittedDocs[j].id => i = j
  /\ \A i \in 1..Len(EmittedDocs) :
       /\ gotos[EmittedDocs[i].id] = 1
       /\ EmittedDocs[i].id \in visited_links

\* a URL that was emitted is popped a second time
C10_Witness ==
  /\ pc = "loop"
  /\ pops > Cardinality(visited_links)
  /\ current_url \in EmittedIds
  /\ Len(EmittedDocs) >= 2

\* ---- C11 ----
\* u is on the frontier
InStack(u) == \E i \in 1..Len(to_visit) : to_visit[i] = u

\* context.new_page() raised in the iteration of u
PageNotOpened(u) ==
  \E i \in 1..Len(logged) : logged[i] = ErrorMessage(u, "new_page")

\* a seed page that links to one PDF only, both rendered without failure,
\* with a batch_size the two Documents do not exceed: one batch, of the two
\* Documents in order, and the run succeeds
TwoPageScenario ==
  (/\ pc = "done"
   /\ failed = {}
   /\ Len(produced) = 2
   /\ pops = 2
   /\ batch_size >= 2)
  => /\ RunOk
     /\ emitted = <<<<Document(Seed), Document(produced[2])>>>>

C12_ModeChecked ==
  /\ [](pc # "new" =>
          (pc = "rejected" <=> georisques_connector_type # "single"))
  /\ [](pc = "rejected" =>
          /\ outcome # None /\ outcome[1] = "ValueError"
          /\ starts = 0 /\ pops = 0 /\ emitted = <<>>)
  /\ [][pc # "rejected"]_vars
  /\ [][(pc = "new" /\ pc' = "created") =>
          /\ georisques_connector_type = "single"
          /\ base_url' = Seed
          /\ to_visit_list' = <<Seed>>
          /\ self_loaded_count' = 0
          /\ batch_size' \in 1..MaxBatch]_vars
  /\ [][(pc = "created" /\ pc' = "loop" /\ to_visit_list = <<base_url>>) =>
          /\ to_visit' = <<Seed>>
          /\ loaded_count' = 0]_vars

\* a construction with another mode has failed
C12_Witness ==
  /\ pc = "rejected"
  /\ georisques_connector_type = "recursive"
  /\ to_visit_list = <<Seed>>

\* ---- C13 ----
\* C13: the page opened for an iteration is closed before the next iteration
\* starts, whether the page was processed or rendering, extraction or link
\* discovery failed: between iterations and at run end no page is open, and
\* never more than one.
C13_PageReleased ==
  /\ open_pages <= 1
  /\ pc \in {"loop", "yielded", "flush", "yielded_last", "done"}
       => open_pages = 0

\* ---- C14 ----
\* C14: at the head of every loop iteration, also after an iteration that
\* ended in the except clause, doc_batch holds fewer than batch_size
\* Documents: a full batch is yielded before the next URL is popped.
C14_BackPressure ==
  pc = "loop" => Len(doc_batch) < batch_size

\* ---- C15 ----
\* the ids of the Documents appended to a batch so far
ProducedIds == {produced[i] : i \in 1..Len(produced)}

\* C15: between iterations every processed URL has exactly one of two
\* outcomes: a recorded failure and no Document buffered or emitted, or a
\* Document buffered and no recorded failure.
C15_FailureOrDocument ==
  pc \in {"loop", "yielded", "flush", "yielded_last", "done"} =>
    /\ \A u \in visited_links : (u \in failed) # (u \in ProducedIds)
    /\ \A u \in failed : u \notin EmittedIds

\* ---- C16 ----
\* s is an initial part of t
IsPrefix(s, t) == Len(s) <= Len(t) /\ SubSeq(t, 1, Len(s)) = s

\* C16: the frontier is a stack: a pop takes its topmost (most recently
\* pushed) entry and leaves the entries below as they were, and the links
\* of a page are pushed on top of the entries already there, without a
\* test against the stack; so the links of a page are popped before any
\* entry pushed earlier, the last link of the page first.
C16_Lifo ==
  /\ [][pops' = pops + 1 =>
          /\ to_visit # <<>>
          /\ current_url' = to_visit[Len(to_visit)]
          /\ to_visit' = SubSeq(to_visit, 1, Len(to_visit) - 1)]_vars
  /\ [][pc = "page" =>
          /\ IsPrefix(to_visit, to_visit')
          /\ \A i \in (Len(to_visit) + 1)..Len(to_visit') :
               /\ to_visit'[i] \in discovered'
               /\ to_visit'[i] \notin visited_links]_vars
  /\ [][(pc = "loop" \/ pc = "page") =>
          (\/ to_visit' = to_visit
           \/ pops' = pops + 1
           \/ pc = "page" /\ Len(to_visit') > Len(to_visit))]_vars

\* the stack holds a URL twice and a URL that is already visited
C16_Witness ==
  /\ pc = "loop"
  /\ \E i, j \in 1..Len(to_visit) : i < j /\ to_visit[i] = to_visit[j]
  /\ \E k \in 1..Len(to_visit) : to_visit[k] \in visited_links

\* ---- C17 ----
\* C17 as stated: between iterations and at run end, also after a budget
\* stop, loaded_count is the number of URLs popped so far in the run,
\* skipped and failed pops included.
C17_CountEqualsPops ==
  pc \in {"loop", "page", "yielded", "flush", "yielded_last", "done"} =>
    loaded_count = pops

\* C17 amended: loaded_count is the number of URLs popped so far, except
\* after a budget stop, where it is one more: the increment that exceeds
\* the budget is not followed by a pop.
C17_CountTracksPops ==
  pc \in {"loop", "page", "yielded", "flush", "yielded_last", "done"} =>
    /\ exit_by # "budget" => loaded_count = pops
    /\ exit_by = "budget" =>
         /\ loaded_count = pops + 1
         /\ pops = MAX_PAGES_TO_VISIT

\* a run with a failed pop was stopped by the budget
C17_Witness ==
  /\ pc = "done"
  /\ exit_by = "budget"
  /\ loaded_count = pops + 1
  /\ failed # {}

\* ---- C18 ----
\* a pop of a URL that is already in visited_links
SkippedPop == pops' = pops + 1 /\ to_visit[Len(to_visit)] \in visited_links

\* a skipped pop renders nothing and leaves visited_links, last_error and
\* the batch as they were; visited_links never shrinks during a run
SkipAndGrowth ==
  /\ [][SkippedPop =>
          /\ gotos' = gotos
          /\ visited_links' = visited_links
          /\ last_error' = last_error
          /\ doc_batch' = doc_batch
          /\ pc' = "loop"]_vars
  /\ [][(pc # "new" /\ pc # "created") =>
          visited_links \subseteq visited_links']_vars

\* C18 as stated: at run end page.goto was called once for every URL in
\* visited_links and for no other, so that the number of calls is the size
\* of visited_links; with the two properties above.
C18_RenderPerVisited ==
  /\ [](pc \in {"done", "aborted", "closed"} =>
          \A u \in Urls : gotos[u] = (IF u \in visited_links THEN 1 ELSE 0))
  /\ SkipAndGrowth

\* C18 amended: at run end page.goto was called once for every URL in
\* visited_links but those for which context.new_page() raised, and for no
\* other; with the two properties above.
C18_RenderPerOpenedPage ==
  /\ [](pc \in {"done", "aborted", "closed"} =>
          \A u \in Urls :
            gotos[u] = (IF u \in visited_links /\ ~PageNotOpened(u)
                        THEN 1 ELSE 0))
  /\ SkipAndGrowth

\* a run with a skipped pop and a page that could not be opened has ended
C18_Witness ==
  /\ pc = "done"
  /\ pops > Cardinality(visited_links)
  /\ \E u \in visited_links : PageNotOpened(u) /\ gotos[u] = 0

\* ---- C19 ----
\* C19: no step of a run changes the attributes of the connector
\* (to_visit_list, loaded_count, batch_size, base_url), so at every call of
\* load_from_state() they are as the constructor left them (but for a seed
\* list the caller emptied); and every run, the first and any later one,
\* starts with a frontier holding the seed only, an empty visited set, a
\* zero count, an empty batch and nothing emitted: the state from which the
\* first run started, hence with the same batches against the same site.
C19_RunLeavesConnector ==
  /\ [][(pc # "new" /\ pc # "created") => UNCHANGED stored]_vars
  /\ [](pc = "created" =>
          /\ to_visit_list = <<Seed>> \/ to_visit_list = <<>>
          /\ self_loaded_count = 0
          /\ batch_size \in 1..MaxBatch
          /\ base_url = Seed)
  /\ [][(pc = "created" /\ pc' = "loop") =>
          /\ to_visit' = <<Seed>>
          /\ visited_links' = {}
          /\ loaded_count' = 0
          /\ doc_batch' = <<>>
          /\ at_least_one_doc' = FALSE
          /\ last_error' = None
          /\ emitted' = <<>>
          /\ pops' = 0]_vars

\* a later run on the same instance has started: current_url still names
\* the last URL that the previous run popped
C19_Witness ==
  /\ pc = "loop"
  /\ pops = 0
  /\ current_url # Seed
  /\ visited_links = {}
  /\ loaded_count = 0
  /\ to_visit = <<Seed>>

====
